---- MODULE Spec2Model ----
(***************************************************************************)
(* Memory partitioning simulator (src/script.js): a static allocator over  *)
(* five fixed partitions, a dynamic allocator with first/best/worst fit    *)
(* and optional coalescing, and the controller that routes the commands.   *)
(* Sizes and addresses are bytes, as in the source.  Sequences are 1-based:*)
(* a JavaScript index k is k+1 here, and the "not found" index -1 is 0.    *)
(***************************************************************************)
EXTENDS Integers, Sequences, FiniteSets, TLC

VARIABLES algorithmSelect, dynamicAlgorithmSelect, coalesceCheckbox,
          memoryManager, processes, nextProcessId, last

vars == <<algorithmSelect, dynamicAlgorithmSelect, coalesceCheckbox,
          memoryManager, processes, nextProcessId, last>>

\* ------------------------------------------------------------- bounds
\* The registry holds at most MaxProcesses processes (five are created at startup).
MaxProcesses == 6
\* A dynamic allocation is taken only while the block list stays within MaxBlocks.
MaxBlocks == 4
\* The longest block list the given-block-list specification starts from.
MaxGivenBlocks == 4

\* ---------------------------------------------------------- constants
KiB == 1024
MiB == 1024 * 1024
TOTAL_MEMORY == 16 * 1024 * 1024
OS_MEMORY_SIZE == 2 * 1024 * 1024
\* JavaScript null (partitionId, processId); ids and addresses are >= 0.
NULL == -1
\* Infinity and -Infinity of _findBestFit/_findWorstFit; every diff is in 0..TOTAL_MEMORY.
PosInfinity == TOTAL_MEMORY + 1
NegInfinity == 0 - 1

FitAlgorithms == {"first", "best", "worst"}
Algorithms == {"static", "dynamic"}

\* The sizes of the five processes setupInitialState creates.
DefaultSizes == <<512 * KiB, 1536 * KiB, 3 * MiB, 700 * KiB, 4 * MiB>>
\* The byte counts a user enters for a new process (size * unit).
ProcessSizes == {600 * KiB}
\* What parseInt(size) * parseInt(unit) yields: NaN, or an integer.
NaNValue == [nan |-> TRUE, n |-> 0]
Num(n) == [nan |-> FALSE, n |-> n]
AddProcessInputs == {NaNValue, Num(0), Num(0 - 1024)} \cup {Num(s) : s \in ProcessSizes}

\* ------------------------------------------------------------ helpers
ProcessControlBlock(id, size) ==
    [id |-> id, name |-> <<"Process", id>>, size |-> size,
     allocated |-> FALSE, partitionId |-> NULL]

\* Array.prototype.findIndex / find on the registry: the first index whose id matches.
RECURSIVE FindProcessFrom(_, _, _)
FindProcessFrom(procs, id, i) ==
    IF i > Len(procs) THEN 0
    ELSE IF procs[i].id = id THEN i
    ELSE FindProcessFrom(procs, id, i + 1)

FindProcess(procs, id) == FindProcessFrom(procs, id, 1)

\* this.memory.find(b => b.processId === processId): the first region owned by the id.
RECURSIVE FindOwnedFrom(_, _, _)
FindOwnedFrom(memory, processId, i) ==
    IF i > Len(memory) THEN 0
    ELSE IF memory[i].processId = processId THEN i
    ELSE FindOwnedFrom(memory, processId, i + 1)

FindOwned(memory, processId) == FindOwnedFrom(memory, processId, 1)

\* Array.prototype.splice(at, 0, item) and splice(at, 1), with 1-based positions.
InsertAt(s, at, item) == SubSeq(s, 1, at - 1) \o <<item>> \o SubSeq(s, at, Len(s))
RemoveAt(s, at) == SubSeq(s, 1, at - 1) \o SubSeq(s, at + 1, Len(s))

\* ------------------------------------------------- StaticMemoryManager
partitionSizes == <<1 * MiB, 2 * MiB, 4 * MiB, 8 * MiB, 1 * MiB>>

\* currentAddress when the map callback reaches index i (1-based).
RECURSIVE PartitionAddress(_)
PartitionAddress(i) ==
    IF i = 1 THEN OS_MEMORY_SIZE
    ELSE PartitionAddress(i - 1) + partitionSizes[i - 1]

StaticMemoryManager(totalSize) ==
    [kind |-> "static", totalSize |-> totalSize,
     memory |-> [i \in 1..Len(partitionSizes) |->
                   [id |-> i - 1, address |-> PartitionAddress(i),
                    size |-> partitionSizes[i], free |-> TRUE, processId |-> NULL]]]

\* StaticScan without the size test: the first free partition, whatever its size.
RECURSIVE StaticScanIgnoresSize(_, _, _)
StaticScanIgnoresSize(memory, size, i) ==
    IF i > Len(memory) THEN 0
    ELSE IF memory[i].free THEN i
    ELSE StaticScanIgnoresSize(memory, size, i + 1)

\* StaticScan that keeps scanning: the last free partition that is large enough.
RECURSIVE StaticScanLast(_, _, _)
StaticScanLast(memory, size, i) ==
    IF i > Len(memory) THEN 0
    ELSE LET later == StaticScanLast(memory, size, i + 1) IN
         IF later # 0 THEN later
         ELSE IF memory[i].free /\ memory[i].size >= size THEN i
         ELSE 0

\* The for..of scan of StaticMemoryManager.allocate: first free partition that is large enough.
RECURSIVE StaticScan(_, _, _)
StaticScan(memory, size, i) ==
    IF i > Len(memory) THEN 0
    ELSE IF memory[i].free /\ memory[i].size >= size THEN i
    ELSE StaticScan(memory, size, i + 1)

\* allocate(process) of the static manager; pi is the process's registry index.
StaticAllocate(mm, procs, pi) ==
    LET k == StaticScan(mm.memory, procs[pi].size, 1) IN
    IF k # 0
    THEN [ok |-> TRUE, index |-> k,
          mm |-> [mm EXCEPT !.memory[k].free = FALSE,
                            !.memory[k].processId = procs[pi].id],
          procs |-> [procs EXCEPT ![pi].allocated = TRUE,
                                  ![pi].partitionId = mm.memory[k].id]]
    ELSE [ok |-> FALSE, index |-> 0, mm |-> mm, procs |-> procs]

\* ClearProcess without the reset of partitionId.
ClearProcessKeepsReference(procs, processId) ==
    LET pi == FindProcess(procs, processId) IN
    IF pi # 0
    THEN [procs EXCEPT ![pi].allocated = FALSE]
    ELSE procs

\* ClearProcess with forEach in place of find: every process of the registry is cleared.
ClearEveryProcess(procs, processId) ==
    [i \in 1..Len(procs) |-> [procs[i] EXCEPT !.allocated = FALSE, !.partitionId = NULL]]

\* The registry update shared by both deallocate methods (lines 96-100 and 196-200).
ClearProcess(procs, processId) ==
    LET pi == FindProcess(procs, processId) IN
    IF pi # 0
    THEN [procs EXCEPT ![pi].allocated = FALSE, ![pi].partitionId = NULL]
    ELSE procs

\* deallocate of the static manager without partition.processId = null.
StaticDeallocateKeepsOwner(mm, procs, processId) ==
    LET k == FindOwned(mm.memory, processId) IN
    IF k # 0
    THEN [found |-> TRUE, index |-> k,
          mm |-> [mm EXCEPT !.memory[k].free = TRUE],
          procs |-> ClearProcess(procs, processId)]
    ELSE [found |-> FALSE, index |-> 0, mm |-> mm, procs |-> procs]

StaticDeallocate(mm, procs, processId) ==
    LET k == FindOwned(mm.memory, processId) IN
    IF k # 0
    THEN [found |-> TRUE, index |-> k,
          mm |-> [mm EXCEPT !.memory[k].free = TRUE, !.memory[k].processId = NULL],
          procs |-> ClearProcess(procs, processId)]
    ELSE [found |-> FALSE, index |-> 0, mm |-> mm, procs |-> procs]

\* ------------------------------------------------ DynamicMemoryManager
DynamicMemoryManager(totalSize, coalesceEnabled, fitAlgorithm) ==
    [kind |-> "dynamic", totalSize |-> totalSize,
     coalesceEnabled |-> coalesceEnabled, fitAlgorithm |-> fitAlgorithm,
     memory |-> <<[address |-> OS_MEMORY_SIZE, size |-> totalSize - OS_MEMORY_SIZE,
                   free |-> TRUE, processId |-> NULL]>>]

RECURSIVE FirstFitFrom(_, _, _)
FirstFitFrom(memory, size, i) ==
    IF i > Len(memory) THEN 0
    ELSE IF memory[i].free /\ memory[i].size >= size THEN i
    ELSE FirstFitFrom(memory, size, i + 1)

\* _findFirstFit with block.size > size: a block of exactly the requested size is skipped.
RECURSIVE FirstFitStrictFrom(_, _, _)
FirstFitStrictFrom(memory, size, i) ==
    IF i > Len(memory) THEN 0
    ELSE IF memory[i].free /\ memory[i].size > size THEN i
    ELSE FirstFitStrictFrom(memory, size, i + 1)

FindFirstFitStrict(memory, size) == FirstFitStrictFrom(memory, size, 1)

FindFirstFit(memory, size) == FirstFitFrom(memory, size, 1)

\* The forEach of _findBestFit from index i on, with the running bestIndex and minDiff.
RECURSIVE BestFitFrom(_, _, _, _, _)
BestFitFrom(memory, size, i, bestIndex, minDiff) ==
    IF i > Len(memory) THEN bestIndex
    ELSE IF memory[i].free /\ memory[i].size >= size /\ memory[i].size - size < minDiff
         THEN BestFitFrom(memory, size, i + 1, i, memory[i].size - size)
         ELSE BestFitFrom(memory, size, i + 1, bestIndex, minDiff)

\* _findBestFit with diff <= minDiff: the last of several equally good blocks wins.
RECURSIVE BestFitLastTieFrom(_, _, _, _, _)
BestFitLastTieFrom(memory, size, i, bestIndex, minDiff) ==
    IF i > Len(memory) THEN bestIndex
    ELSE IF memory[i].free /\ memory[i].size >= size /\ memory[i].size - size <= minDiff
         THEN BestFitLastTieFrom(memory, size, i + 1, i, memory[i].size - size)
         ELSE BestFitLastTieFrom(memory, size, i + 1, bestIndex, minDiff)

FindBestFitLastTie(memory, size) == BestFitLastTieFrom(memory, size, 1, 0, PosInfinity)

FindBestFit(memory, size) == BestFitFrom(memory, size, 1, 0, PosInfinity)

\* The forEach of _findWorstFit from index i on, with the running worstIndex and maxDiff.
RECURSIVE WorstFitFrom(_, _, _, _, _)
WorstFitFrom(memory, size, i, worstIndex, maxDiff) ==
    IF i > Len(memory) THEN worstIndex
    ELSE IF memory[i].free /\ memory[i].size >= size /\ memory[i].size - size > maxDiff
         THEN WorstFitFrom(memory, size, i + 1, i, memory[i].size - size)
         ELSE WorstFitFrom(memory, size, i + 1, worstIndex, maxDiff)

\* _findWorstFit with diff >= maxDiff: the last of several equally large blocks wins.
RECURSIVE WorstFitLastTieFrom(_, _, _, _, _)
WorstFitLastTieFrom(memory, size, i, worstIndex, maxDiff) ==
    IF i > Len(memory) THEN worstIndex
    ELSE IF memory[i].free /\ memory[i].size >= size /\ memory[i].size - size >= maxDiff
         THEN WorstFitLastTieFrom(memory, size, i + 1, i, memory[i].size - size)
         ELSE WorstFitLastTieFrom(memory, size, i + 1, worstIndex, maxDiff)

FindWorstFitLastTie(memory, size) == WorstFitLastTieFrom(memory, size, 1, 0, NegInfinity)

\* _findWorstFit with maxDiff started at 0: a block of exactly the requested size is never chosen.
FindWorstFitFromZero(memory, size) == WorstFitFrom(memory, size, 1, 0, 0)

FindWorstFit(memory, size) == WorstFitFrom(memory, size, 1, 0, NegInfinity)

\* The dispatch on this.fitAlgorithm (blockIndex stays -1 for any other value).
FindBlock(mm, size) ==
    IF mm.fitAlgorithm = "first" THEN FindFirstFit(mm.memory, size)
    ELSE IF mm.fitAlgorithm = "best" THEN FindBestFit(mm.memory, size)
    ELSE IF mm.fitAlgorithm = "worst" THEN FindWorstFit(mm.memory, size)
    ELSE 0

\* SplitBlock with the remainder placed at the end of the original block.
SplitBlockRemainderMisplaced(memory, k, size, processId) ==
    LET block == memory[k]
        remainingSize == block.size - size
        occupied == [memory EXCEPT ![k].size = size, ![k].free = FALSE,
                                   ![k].processId = processId]
    IN  IF remainingSize > 0
        THEN InsertAt(occupied, k + 1,
                      [address |-> block.address + block.size, size |-> remainingSize,
                       free |-> TRUE, processId |-> NULL])
        ELSE occupied

\* SplitBlock with the test remainingSize >= 0: an exact fit inserts a block of size zero.
SplitBlockInsertsEmpty(memory, k, size, processId) ==
    LET block == memory[k]
        remainingSize == block.size - size
        occupied == [memory EXCEPT ![k].size = size, ![k].free = FALSE,
                                   ![k].processId = processId]
    IN  IF remainingSize >= 0
        THEN InsertAt(occupied, k + 1,
                      [address |-> block.address + size, size |-> remainingSize,
                       free |-> TRUE, processId |-> NULL])
        ELSE occupied

\* Lines 130-146: occupy block k with the process and splice in the free remainder.
SplitBlock(memory, k, size, processId) ==
    LET block == memory[k]
        remainingSize == block.size - size
        occupied == [memory EXCEPT ![k].size = size, ![k].free = FALSE,
                                   ![k].processId = processId]
    IN  IF remainingSize > 0
        THEN InsertAt(occupied, k + 1,
                      [address |-> block.address + size, size |-> remainingSize,
                       free |-> TRUE, processId |-> NULL])
        ELSE occupied

\* DynamicAllocate that sets process.allocated before it knows whether a block was found.
DynamicAllocateFlagsFirst(mm, procs, pi) ==
    LET k == FindBlock(mm, procs[pi].size) IN
    IF k # 0
    THEN [ok |-> TRUE, index |-> k,
          mm |-> [mm EXCEPT !.memory = SplitBlock(mm.memory, k, procs[pi].size, procs[pi].id)],
          procs |-> [procs EXCEPT ![pi].allocated = TRUE,
                                  ![pi].partitionId = mm.memory[k].address]]
    ELSE [ok |-> FALSE, index |-> 0, mm |-> mm,
          procs |-> [procs EXCEPT ![pi].allocated = TRUE]]

\* allocate(process) of the dynamic manager; pi is the process's registry index.
DynamicAllocate(mm, procs, pi) ==
    LET k == FindBlock(mm, procs[pi].size) IN
    IF k # 0
    THEN [ok |-> TRUE, index |-> k,
          mm |-> [mm EXCEPT !.memory = SplitBlock(mm.memory, k, procs[pi].size, procs[pi].id)],
          procs |-> [procs EXCEPT ![pi].allocated = TRUE,
                                  ![pi].partitionId = mm.memory[k].address]]
    ELSE [ok |-> FALSE, index |-> 0, mm |-> mm, procs |-> procs]

\* The loop of coalesce() with loop variable i (1-based); a merge re-checks the same i.
RECURSIVE CoalesceFrom(_, _)
CoalesceFrom(memory, i) ==
    IF i >= Len(memory) THEN memory
    ELSE IF memory[i].free /\ memory[i + 1].free
         THEN CoalesceFrom(RemoveAt([memory EXCEPT ![i].size = memory[i].size + memory[i + 1].size],
                                    i + 1), i)
         ELSE CoalesceFrom(memory, i + 1)

\* coalesce() without the i-- after a merge: the loop moves on to the next index.
RECURSIVE CoalesceNoRecheckFrom(_, _)
CoalesceNoRecheckFrom(memory, i) ==
    IF i >= Len(memory) THEN memory
    ELSE IF memory[i].free /\ memory[i + 1].free
         THEN CoalesceNoRecheckFrom(
                  RemoveAt([memory EXCEPT ![i].size = memory[i].size + memory[i + 1].size],
                           i + 1), i + 1)
         ELSE CoalesceNoRecheckFrom(memory, i + 1)

CoalesceNoRecheck(memory) == CoalesceNoRecheckFrom(memory, 1)

\* coalesce() with the loop started at i = 1: the first pair of blocks is never examined.
CoalesceSkipsFirstPair(memory) == CoalesceFrom(memory, 2)

Coalesce(memory) == CoalesceFrom(memory, 1)

\* deallocate of the dynamic manager without the call of coalesce().
DynamicDeallocateNoCoalesce(mm, procs, processId) ==
    LET k == FindOwned(mm.memory, processId) IN
    IF k # 0
    THEN [found |-> TRUE, index |-> k,
          mm |-> [mm EXCEPT !.memory[k].free = TRUE, !.memory[k].processId = NULL],
          procs |-> ClearProcess(procs, processId)]
    ELSE [found |-> FALSE, index |-> 0, mm |-> mm, procs |-> procs]

\* deallocate of the dynamic manager with coalesce() called before the block is freed.
DynamicDeallocateCoalescesFirst(mm, procs, processId) ==
    LET k == FindOwned(mm.memory, processId) IN
    IF k # 0
    THEN LET merged == IF mm.coalesceEnabled THEN Coalesce(mm.memory) ELSE mm.memory
             j == FindOwned(merged, processId)
         IN  [found |-> TRUE, index |-> k,
              mm |-> [mm EXCEPT !.memory = [merged EXCEPT ![j].free = TRUE,
                                                          ![j].processId = NULL]],
              procs |-> ClearProcess(procs, processId)]
    ELSE [found |-> FALSE, index |-> 0, mm |-> mm, procs |-> procs]

DynamicDeallocate(mm, procs, processId) ==
    LET k == FindOwned(mm.memory, processId) IN
    IF k # 0
    THEN LET freed == [mm.memory EXCEPT ![k].free = TRUE, ![k].processId = NULL] IN
         [found |-> TRUE, index |-> k,
          mm |-> [mm EXCEPT !.memory = IF mm.coalesceEnabled THEN Coalesce(freed) ELSE freed],
          procs |-> ClearProcess(procs, processId)]
    ELSE [found |-> FALSE, index |-> 0, mm |-> mm, procs |-> procs]

\* The virtual calls memoryManager.allocate / memoryManager.deallocate.
Allocate(mm, procs, pi) ==
    IF mm.kind = "static" THEN StaticAllocate(mm, procs, pi) ELSE DynamicAllocate(mm, procs, pi)

Deallocate(mm, procs, processId) ==
    IF mm.kind = "static" THEN StaticDeallocate(mm, procs, processId)
    ELSE DynamicDeallocate(mm, procs, processId)

\* ----------------------------------------------------------- controller
\* The manager initialize() builds from the three controls.
NewManager(algorithm, coalesce, fitAlgorithm) ==
    IF algorithm = "static" THEN StaticMemoryManager(TOTAL_MEMORY)
    ELSE DynamicMemoryManager(TOTAL_MEMORY, coalesce, fitAlgorithm)

\* The reset of initialize() without p.partitionId = null.
ResetProcessesKeepsReference(procs) ==
    [i \in 1..Len(procs) |-> [procs[i] EXCEPT !.allocated = FALSE]]

\* A reset that drops the processes whose regions it discards instead of clearing them.
ResetProcessesDropsAllocated(procs) ==
    SelectSeq(procs, LAMBDA p : ~p.allocated)

\* processes.forEach(p => { p.allocated = false; p.partitionId = null; })
ResetProcesses(procs) ==
    [i \in 1..Len(procs) |-> [procs[i] EXCEPT !.allocated = FALSE, !.partitionId = NULL]]

\* The number of occupied regions of a region list.
OccupiedCount(memory) == Cardinality({k \in 1..Len(memory) : ~memory[k].free})

NoBase == [valid |-> FALSE, memory |-> <<>>]
NoInput == [nan |-> FALSE, n |-> 0 - 1]

\* The record of the last command: what ran, on which id, how it ended, the block or
\* partition it chose, the region list before it (for an allocate or deallocate), and
\* (for a deallocate that directly follows a successful allocate of the same id) the
\* region list before that allocate.  again tells a deallocate that directly follows a
\* successful deallocate of the same id, input is the value a createProcess call was
\* given, and cleared is the number of occupied regions an initialize() discarded.
LastRecord(op, pid, ok, threw, index, pre, base) ==
    [op |-> op, pid |-> pid, ok |-> ok, threw |-> threw, index |-> index,
     pre |-> pre, base |-> base, again |-> FALSE, input |-> NoInput, cleared |-> 0]

\* initialize(), with the controls already at their new values.
Initialize(op, algorithm, coalesce, fitAlgorithm) ==
    /\ memoryManager' = NewManager(algorithm, coalesce, fitAlgorithm)
    /\ processes' = ResetProcesses(processes)
    /\ last' = [LastRecord(op, NULL, TRUE, FALSE, 0, <<>>, NoBase)
                  EXCEPT !.cleared = OccupiedCount(memoryManager.memory)]
    /\ UNCHANGED nextProcessId

\* The registry after setupInitialState's five createProcess calls.
DefaultProcesses == [i \in 1..Len(DefaultSizes) |-> ProcessControlBlock(i - 1, DefaultSizes[i])]

Init ==
    /\ algorithmSelect \in Algorithms
    /\ dynamicAlgorithmSelect \in FitAlgorithms
    /\ coalesceCheckbox \in BOOLEAN
    /\ memoryManager = NewManager(algorithmSelect, coalesceCheckbox, dynamicAlgorithmSelect)
    /\ processes = DefaultProcesses
    /\ nextProcessId = Len(DefaultSizes)
    /\ last = LastRecord("setup", NULL, TRUE, FALSE, 0, <<>>, NoBase)

\* createProcess with the test sizeInBytes < 0: a size of zero is accepted.
CreateProcessAcceptsZero(v) ==
    /\ IF v.nan \/ v.n < 0
       THEN /\ UNCHANGED <<processes, nextProcessId>>
            /\ last' = [LastRecord("create", NULL, FALSE, FALSE, 0, <<>>, NoBase)
                          EXCEPT !.input = v]
       ELSE /\ Len(processes) < MaxProcesses
            /\ processes' = Append(processes, ProcessControlBlock(nextProcessId, v.n))
            /\ nextProcessId' = nextProcessId + 1
            /\ last' = [LastRecord("create", nextProcessId, TRUE, FALSE, 0, <<>>, NoBase)
                          EXCEPT !.input = v]
    /\ UNCHANGED <<algorithmSelect, dynamicAlgorithmSelect, coalesceCheckbox, memoryManager>>

\* createProcess(sizeInBytes), called by handleAddProcessClick.
CreateProcess(v) ==
    /\ IF v.nan \/ v.n <= 0
       THEN /\ UNCHANGED <<processes, nextProcessId>>
            /\ last' = [LastRecord("create", NULL, FALSE, FALSE, 0, <<>>, NoBase)
                          EXCEPT !.input = v]
       ELSE /\ Len(processes) < MaxProcesses
            /\ processes' = Append(processes, ProcessControlBlock(nextProcessId, v.n))
            /\ nextProcessId' = nextProcessId + 1
            /\ last' = [LastRecord("create", nextProcessId, TRUE, FALSE, 0, <<>>, NoBase)
                          EXCEPT !.input = v]
    /\ UNCHANGED <<algorithmSelect, dynamicAlgorithmSelect, coalesceCheckbox, memoryManager>>

\* The change event of the mode select: handleAlgorithmChange -> initialize.
HandleAlgorithmChange(value) ==
    /\ value # algorithmSelect
    /\ algorithmSelect' = value
    /\ Initialize("mode", value, coalesceCheckbox, dynamicAlgorithmSelect)
    /\ UNCHANGED <<dynamicAlgorithmSelect, coalesceCheckbox>>

\* The change event of the fit select: initialize.
DynamicAlgorithmChange(value) ==
    /\ value # dynamicAlgorithmSelect
    /\ dynamicAlgorithmSelect' = value
    /\ Initialize("fit", algorithmSelect, coalesceCheckbox, value)
    /\ UNCHANGED <<algorithmSelect, coalesceCheckbox>>

\* The change event of the coalesce checkbox: initialize.
CoalesceChange ==
    /\ coalesceCheckbox' = ~coalesceCheckbox
    /\ Initialize("coalesce", algorithmSelect, ~coalesceCheckbox, dynamicAlgorithmSelect)
    /\ UNCHANGED <<algorithmSelect, dynamicAlgorithmSelect>>

\* The click on the reset button: initialize.
ResetClick ==
    /\ Initialize("reset", algorithmSelect, coalesceCheckbox, dynamicAlgorithmSelect)
    /\ UNCHANGED <<algorithmSelect, dynamicAlgorithmSelect, coalesceCheckbox>>

\* handleProcessListClick on a target of class "allocate" with data-id = id; the step
\* is taken only while a dynamic block list stays within maxBlocks blocks.
AllocateClick(id, maxBlocks) ==
    LET pi == FindProcess(processes, id) IN
    /\ IF pi = 0
       THEN \* process is undefined: allocate reads process.size (or process.name) and throws
            /\ UNCHANGED <<memoryManager, processes>>
            /\ last' = LastRecord("allocate", id, FALSE, TRUE, 0, memoryManager.memory, NoBase)
       ELSE LET r == Allocate(memoryManager, processes, pi) IN
            /\ memoryManager.kind = "dynamic" => Len(r.mm.memory) <= maxBlocks
            /\ memoryManager' = r.mm
            /\ processes' = r.procs
            /\ last' = LastRecord("allocate", id, r.ok, FALSE, r.index, memoryManager.memory, NoBase)
    /\ UNCHANGED <<algorithmSelect, dynamicAlgorithmSelect, coalesceCheckbox, nextProcessId>>

ClickAllocate(id) == AllocateClick(id, MaxBlocks)

\* ClickDeallocate that reads a field of the process before it calls deallocate: for an
\* id that is not in the registry the handler throws.
ClickDeallocateReadsProcess(id) ==
    LET r == Deallocate(memoryManager, processes, id) IN
    /\ IF FindProcess(processes, id) = 0
       THEN /\ UNCHANGED <<memoryManager, processes>>
            /\ last' = LastRecord("deallocate", id, FALSE, TRUE, 0, memoryManager.memory, NoBase)
       ELSE /\ memoryManager' = r.mm
            /\ processes' = r.procs
            /\ last' = LastRecord("deallocate", id, r.found, FALSE, r.index,
                                  memoryManager.memory, NoBase)
    /\ UNCHANGED <<algorithmSelect, dynamicAlgorithmSelect, coalesceCheckbox, nextProcessId>>

\* handleProcessListClick on a target of class "deallocate" with data-id = id.
ClickDeallocate(id) ==
    LET r == Deallocate(memoryManager, processes, id) IN
    /\ memoryManager' = r.mm
    /\ processes' = r.procs
    /\ last' = [LastRecord("deallocate", id, r.found, FALSE, r.index, memoryManager.memory,
                           IF last.op = "allocate" /\ last.ok /\ last.pid = id
                           THEN [valid |-> TRUE, memory |-> last.pre] ELSE NoBase)
                  EXCEPT !.again = (last.op = "deallocate" /\ last.ok /\ last.pid = id)]
    /\ UNCHANGED <<algorithmSelect, dynamicAlgorithmSelect, coalesceCheckbox, nextProcessId>>

\* The data-id values the clicks carry: two of the startup processes (1.5 MiB and 3 MiB),
\* the first process the user adds, and an id that is never assigned.
NeverAssignedId == MaxProcesses
ClickIds == {1, 2, Len(DefaultSizes), NeverAssignedId}

Next ==
    \/ \E v \in AddProcessInputs : CreateProcess(v)
    \/ \E a \in Algorithms : HandleAlgorithmChange(a)
    \/ \E f \in FitAlgorithms : DynamicAlgorithmChange(f)
    \/ CoalesceChange
    \/ ResetClick
    \/ \E id \in ClickIds : ClickAllocate(id)
    \/ \E id \in ClickIds : ClickDeallocate(id)

Spec == Init /\ [][Next]_vars

\* The commands as the rendered process list offers them: an Allocate button exists
\* only for a registered process whose allocated flag is false (renderProcessList).
OfferedClickAllocate(id) ==
    LET pi == FindProcess(processes, id) IN
    /\ pi # 0
    /\ ~processes[pi].allocated
    /\ ClickAllocate(id)

\* The clicks of Spec and those on the buttons of the 512 KiB startup process.
OfferedClickIds == ClickIds \cup {0}

OfferedNext ==
    \/ \E v \in AddProcessInputs : CreateProcess(v)
    \/ \E a \in Algorithms : HandleAlgorithmChange(a)
    \/ \E f \in FitAlgorithms : DynamicAlgorithmChange(f)
    \/ CoalesceChange
    \/ ResetClick
    \/ \E id \in OfferedClickIds : OfferedClickAllocate(id)
    \/ \E id \in OfferedClickIds : ClickDeallocate(id)

OfferedSpec == Init /\ [][OfferedNext]_vars

\* ------------------------------------------------- given block lists
\* The second specification starts a manager from a given region list, as the
\* program holds it in the middle of a session, and applies a command to it.
\* A layout is a sequence of [size, free] cells; the last block takes the rest of memory.
GivenSizes == {512 * KiB, 1 * MiB, 2 * MiB}
GivenCells == [size : GivenSizes, free : BOOLEAN]

RECURSIVE SumSizes(_, _)
SumSizes(layout, n) == IF n = 0 THEN 0 ELSE SumSizes(layout, n - 1) + layout[n].size

FullLayout(cells, tailFree) ==
    cells \o <<[size |-> TOTAL_MEMORY - OS_MEMORY_SIZE - SumSizes(cells, Len(cells)),
                free |-> tailFree]>>

GivenLayouts ==
    UNION {{FullLayout(cells, tailFree) : cells \in [1..n -> GivenCells], tailFree \in BOOLEAN} :
           n \in 0..(MaxGivenBlocks - 1)}

\* The process that asks for 600 KiB is created right after the startup processes;
\* the owners of the occupied blocks are created after it, in address order.
RequesterId == Len(DefaultSizes)
FirstOwnerId == RequesterId + 1

RECURSIVE OccupiedBefore(_, _)
OccupiedBefore(layout, i) ==
    IF i = 1 THEN 0
    ELSE OccupiedBefore(layout, i - 1) + (IF layout[i - 1].free THEN 0 ELSE 1)

GivenMemory(layout) ==
    [i \in 1..Len(layout) |->
        [address |-> OS_MEMORY_SIZE + SumSizes(layout, i - 1), size |-> layout[i].size,
         free |-> layout[i].free,
         processId |-> IF layout[i].free THEN NULL
                       ELSE FirstOwnerId + OccupiedBefore(layout, i)]]

RECURSIVE GivenOwners(_, _)
GivenOwners(memory, i) ==
    IF i > Len(memory) THEN <<>>
    ELSE IF memory[i].free THEN GivenOwners(memory, i + 1)
    ELSE <<[ProcessControlBlock(memory[i].processId, memory[i].size)
              EXCEPT !.allocated = TRUE, !.partitionId = memory[i].address]>>
         \o GivenOwners(memory, i + 1)

NoAdjacentFree(memory) ==
    \A i \in 1..(Len(memory) - 1) : ~(memory[i].free /\ memory[i + 1].free)

GivenDynamicInit ==
    /\ algorithmSelect = "dynamic"
    /\ dynamicAlgorithmSelect \in FitAlgorithms
    /\ coalesceCheckbox \in BOOLEAN
    /\ \E layout \in GivenLayouts :
          /\ coalesceCheckbox => NoAdjacentFree(GivenMemory(layout))
          /\ memoryManager =
                [DynamicMemoryManager(TOTAL_MEMORY, coalesceCheckbox, dynamicAlgorithmSelect)
                   EXCEPT !.memory = GivenMemory(layout)]
          /\ processes = DefaultProcesses \o <<ProcessControlBlock(RequesterId, 600 * KiB)>>
                            \o GivenOwners(GivenMemory(layout), 1)
          /\ nextProcessId = FirstOwnerId + Len(GivenOwners(GivenMemory(layout), 1))
    /\ last = LastRecord("given", NULL, TRUE, FALSE, 0, <<>>, NoBase)

\* The static manager in the middle of a session: the partitions whose ids are in
\* taken are occupied, each by a process of the partition's size, created in address order.
TakenBefore(taken, i) == Cardinality({t \in taken : t < i - 1})

GivenPartitions(taken) ==
    [i \in 1..Len(partitionSizes) |->
        [StaticMemoryManager(TOTAL_MEMORY).memory[i]
           EXCEPT !.free = (i - 1) \notin taken,
                  !.processId = IF (i - 1) \in taken
                                THEN FirstOwnerId + TakenBefore(taken, i) ELSE NULL]]

RECURSIVE GivenPartitionOwners(_, _)
GivenPartitionOwners(memory, i) ==
    IF i > Len(memory) THEN <<>>
    ELSE IF memory[i].free THEN GivenPartitionOwners(memory, i + 1)
    ELSE <<[ProcessControlBlock(memory[i].processId, memory[i].size)
              EXCEPT !.allocated = TRUE, !.partitionId = memory[i].id]>>
         \o GivenPartitionOwners(memory, i + 1)

GivenStaticInit ==
    /\ algorithmSelect = "static"
    /\ dynamicAlgorithmSelect \in FitAlgorithms
    /\ coalesceCheckbox \in BOOLEAN
    /\ \E taken \in SUBSET (0..(Len(partitionSizes) - 1)) :
          /\ memoryManager =
                [StaticMemoryManager(TOTAL_MEMORY) EXCEPT !.memory = GivenPartitions(taken)]
          /\ processes = DefaultProcesses \o <<ProcessControlBlock(RequesterId, 600 * KiB)>>
                            \o GivenPartitionOwners(GivenPartitions(taken), 1)
          /\ nextProcessId = FirstOwnerId + Cardinality(taken)
    /\ last = LastRecord("given", NULL, TRUE, FALSE, 0, <<>>, NoBase)

GivenInit == GivenDynamicInit \/ GivenStaticInit

\* The commands on a given region list: one command, and after an allocate that
\* found no region the commands that follow it.
GivenCommandAllowed == last.op = "given" \/ (last.op = "allocate" /\ ~last.ok)

\* One allocate command on the given region list.
GivenAllocate(id) ==
    /\ GivenCommandAllowed
    /\ AllocateClick(id, MaxGivenBlocks + 1)

\* One deallocate command on the given region list.
GivenDeallocate(id) ==
    /\ GivenCommandAllowed
    /\ ClickDeallocate(id)

\* A call of coalesce() on the current block list (a method of the dynamic manager).
CoalesceCall ==
    /\ memoryManager.kind = "dynamic"
    /\ memoryManager' = [memoryManager EXCEPT !.memory = Coalesce(memoryManager.memory)]
    /\ last' = LastRecord("coalesce", NULL, TRUE, FALSE, 0, memoryManager.memory, NoBase)
    /\ UNCHANGED <<algorithmSelect, dynamicAlgorithmSelect, coalesceCheckbox,
                   processes, nextProcessId>>

GivenNext ==
    \/ \E id \in 0..RequesterId : GivenAllocate(id)
    \/ \E id \in FirstOwnerId..(FirstOwnerId + MaxGivenBlocks) : GivenDeallocate(id)
    \/ CoalesceCall

BlockSpec == GivenInit /\ [][GivenNext]_vars

\* ---------------------------------------------------------- properties
\* The process record of the last command's id (the command named a registered id).
LastProcess == processes[FindProcess(processes, last.pid)]

\* The number of regions of a region list that the id owns.
OwnedCount(memory, processId) ==
    Cardinality({i \in 1..Len(memory) : memory[i].processId = processId})

HasOccupied(memory) == \E i \in 1..Len(memory) : ~memory[i].free

\* C1: in dynamic mode the block list is ordered by ascending start address, every
\* block has positive size, each block ends where the next one starts, the first block
\* starts at 2 MiB and the last one ends at 16 MiB.
C1_DynamicBlocksCoverUsableSpace ==
    memoryManager.kind = "dynamic" =>
        LET m == memoryManager.memory IN
        /\ Len(m) >= 1
        /\ m[1].address = 2097152
        /\ m[Len(m)].address + m[Len(m)].size = 16777216
        /\ \A i \in 1..Len(m) : m[i].size > 0
        /\ \A i \in 1..(Len(m) - 1) :
              /\ m[i].address < m[i + 1].address
              /\ m[i].address + m[i].size = m[i + 1].address

\* A deallocation with coalescing has just merged blocks of a list that allocations had split.
C1_Witness ==
    /\ memoryManager.kind = "dynamic"
    /\ last.op = "deallocate" /\ last.ok
    /\ Len(last.pre) = MaxBlocks
    /\ Len(memoryManager.memory) < Len(last.pre)
    /\ HasOccupied(memoryManager.memory)

\* C2: in static mode the five partitions are ordered by ascending address and
\* contiguous, the first starts at 2 MiB and the last ends at 16 MiB.
C2_StaticPartitionsCoverUsableSpace ==
    memoryManager.kind = "static" =>
        LET m == memoryManager.memory IN
        /\ Len(m) = 5
        /\ m[1].address = 2097152
        /\ m[5].address + m[5].size = 16777216
        /\ \A i \in 1..5 : m[i].size > 0
        /\ \A i \in 1..4 :
              /\ m[i].address < m[i + 1].address
              /\ m[i].address + m[i].size = m[i + 1].address

\* The region a backing reference identifies: the partition of that id in static
\* mode, the block at that start address in dynamic mode.
Identifies(region, partitionId) ==
    IF memoryManager.kind = "static" THEN region.id = partitionId
    ELSE region.address = partitionId

\* C3: for every registered process, partitionId is non-null exactly when allocated
\* is true, and a non-null partitionId identifies an occupied region whose processId
\* is the process's id.
C3_BackingReferenceConsistent ==
    \A i \in 1..Len(processes) :
        LET p == processes[i] IN
        /\ (p.partitionId # NULL) <=> p.allocated
        /\ p.partitionId # NULL =>
              \E k \in 1..Len(memoryManager.memory) :
                  /\ Identifies(memoryManager.memory[k], p.partitionId)
                  /\ ~memoryManager.memory[k].free
                  /\ memoryManager.memory[k].processId = p.id

\* One process holds a block above the start of the usable space while another has
\* just been deallocated.
C3_Witness ==
    /\ memoryManager.kind = "dynamic"
    /\ last.op = "deallocate" /\ last.ok
    /\ ~LastProcess.allocated
    /\ \E i \in 1..Len(processes) :
          processes[i].allocated /\ processes[i].partitionId > OS_MEMORY_SIZE

\* What C4 promises after a successful allocate of the last command's process:
\* exactly one region is occupied by its id, of exactly the process's size in dynamic
\* mode and of at least that size in static mode, and its allocated flag is true.
AllocatePostcondition ==
    LET m == memoryManager.memory
        k == FindOwned(m, last.pid)
    IN  /\ OwnedCount(m, last.pid) = 1
        /\ ~m[k].free
        /\ memoryManager.kind = "dynamic" => m[k].size = LastProcess.size
        /\ memoryManager.kind = "static" => m[k].size >= LastProcess.size
        /\ LastProcess.allocated

\* C4 as stated: after any successful allocate(process), exactly one region is
\* occupied by the process's id, with size equal to (dynamic) or at least (static)
\* process.size, and the process's allocated flag is true.
C4_AfterAnySuccessfulAllocate ==
    (last.op = "allocate" /\ last.ok) => AllocatePostcondition

\* C4 amended: the same, after a successful allocate(process) of a process that
\* owned no region before the call.
C4_AfterSuccessfulAllocateOfUnplacedProcess ==
    (last.op = "allocate" /\ last.ok /\ OwnedCount(last.pre, last.pid) = 0)
        => AllocatePostcondition

\* A process that owned no region has just been placed by splitting a free block.
C4_Witness ==
    /\ last.op = "allocate" /\ last.ok
    /\ OwnedCount(last.pre, last.pid) = 0
    /\ memoryManager.kind = "dynamic"
    /\ Len(memoryManager.memory) = Len(last.pre) + 1
    /\ OwnedCount(memoryManager.memory, last.pid) = 1

\* Blocks i..j of a block list are a maximal run of consecutive free blocks.
MaximalFreeRun(memory, i, j) ==
    /\ i <= j
    /\ \A t \in i..j : memory[t].free
    /\ i = 1 \/ ~memory[i - 1].free
    /\ j = Len(memory) \/ ~memory[j + 1].free

FreeRuns(memory) ==
    {r \in (1..Len(memory)) \X (1..Len(memory)) : MaximalFreeRun(memory, r[1], r[2])}

\* C5: after coalesce() no two address-adjacent blocks are both free, every maximal
\* run of free blocks of the list before has become one free block that starts at the
\* run's leftmost address and has the sum of the run's sizes, the occupied blocks are
\* kept as they were, and a second coalesce() leaves the list unchanged.
C5_CoalesceMergesRunsAndIsIdempotent ==
    last.op = "coalesce" =>
        LET pre == last.pre
            m == memoryManager.memory
        IN  /\ \A k \in 1..(Len(m) - 1) : ~(m[k].free /\ m[k + 1].free)
            /\ \A k \in 1..(Len(m) - 1) : m[k].address < m[k + 1].address
            /\ Len(m) = Cardinality({i \in 1..Len(pre) : ~pre[i].free})
                          + Cardinality(FreeRuns(pre))
            /\ \A k \in 1..Len(m) :
                  IF m[k].free
                  THEN \E r \in FreeRuns(pre) :
                          /\ m[k].address = pre[r[1]].address
                          /\ m[k].size = SumSizes(pre, r[2]) - SumSizes(pre, r[1] - 1)
                          /\ m[k].processId = NULL
                  ELSE \E i \in 1..Len(pre) : pre[i] = m[k]
            /\ Coalesce(m) = m
            /\ (\A i \in 1..(Len(pre) - 1) : ~(pre[i].free /\ pre[i + 1].free)) => m = pre

\* coalesce() has just merged a run of at least three consecutive free blocks.
C5_Witness ==
    /\ last.op = "coalesce"
    /\ \E i \in 1..(Len(last.pre) - 2) :
          last.pre[i].free /\ last.pre[i + 1].free /\ last.pre[i + 2].free
    /\ Len(memoryManager.memory) <= Len(last.pre) - 2
    /\ HasOccupied(memoryManager.memory)

\* The last command is a deallocate(p.id) that directly follows a successful
\* allocate(p), in dynamic mode with coalescing enabled.
RoundTripDone ==
    /\ last.op = "deallocate"
    /\ last.base.valid
    /\ memoryManager.kind = "dynamic"
    /\ memoryManager.coalesceEnabled

\* C6 as stated: a successful allocate(p) immediately followed by deallocate(p.id)
\* yields the block list (address, size, free flag, owner of every block) that was
\* there before the allocate.
C6_RoundTripRestoresBlockList ==
    RoundTripDone => memoryManager.memory = last.base.memory

\* C6 amended: the same, for a process p that owned no block before the allocate.
C6_RoundTripOfUnplacedProcessRestoresBlockList ==
    (RoundTripDone /\ OwnedCount(last.base.memory, last.pid) = 0)
        => memoryManager.memory = last.base.memory

\* The round trip has just ended for a request that filled a free block exactly
\* (the allocate inserted no remainder), between two other blocks.
C6_Witness ==
    /\ RoundTripDone
    /\ OwnedCount(last.base.memory, last.pid) = 0
    /\ Len(last.pre) = Len(last.base.memory)
    /\ Len(last.pre) >= 3
    /\ memoryManager.memory = last.base.memory

\* The round trip has just ended for a request that split a free block.
C6_SplitCase ==
    /\ RoundTripDone
    /\ OwnedCount(last.base.memory, last.pid) = 0
    /\ Len(last.pre) = Len(last.base.memory) + 1
    /\ HasOccupied(memoryManager.memory)
    /\ memoryManager.memory = last.base.memory

\* The commands that end in initialize(): a mode switch, a change of the fit
\* algorithm, a toggle of the coalesce option, a reset.
InitializeOps == {"mode", "fit", "coalesce", "reset"}

\* C7: after a mode switch, a fit change, a coalesce toggle or a reset, every
\* registered process has allocated = false and partitionId = null, and the region
\* list is the initial one of the selected mode: one free block from 2 MiB of size
\* 14 MiB (dynamic), or five free partitions without owner (static).
C7_InitializeClearsAllocations ==
    last.op \in InitializeOps =>
        LET m == memoryManager.memory IN
        /\ \A i \in 1..Len(processes) :
              ~processes[i].allocated /\ processes[i].partitionId = NULL
        /\ memoryManager.kind = algorithmSelect
        /\ memoryManager.kind = "dynamic" =>
              m = <<[address |-> 2097152, size |-> 14680064, free |-> TRUE, processId |-> NULL]>>
        /\ memoryManager.kind = "static" =>
              /\ Len(m) = 5
              /\ \A k \in 1..5 : m[k].free /\ m[k].processId = NULL

\* The mode has just been switched while regions were occupied.
C7_Witness ==
    /\ last.op = "mode"
    /\ last.cleared >= 2

\* The same for a fit change, a coalesce toggle and a reset.
C7_OtherTriggers(op) == last.op = op /\ last.cleared >= 1
C7_FitCase == C7_OtherTriggers("fit")
C7_CoalesceCase == C7_OtherTriggers("coalesce")
C7_ResetCase == C7_OtherTriggers("reset")

\* The free blocks of a block list that can take a request of req bytes.
Qualifying(memory, req) ==
    {i \in 1..Len(memory) : memory[i].free /\ memory[i].size >= req}

\* The sizes of the free blocks of a block list, in address order.
RECURSIVE FreeSizes(_, _)
FreeSizes(memory, i) ==
    IF i > Len(memory) THEN <<>>
    ELSE (IF memory[i].free THEN <<memory[i].size>> ELSE <<>>) \o FreeSizes(memory, i + 1)

\* The last command is an allocate, under the given fit algorithm, of a registered
\* process, on a list with at least one qualifying free block.
FitRequest(fit) ==
    /\ last.op = "allocate" /\ ~last.threw
    /\ memoryManager.kind = "dynamic"
    /\ memoryManager.fitAlgorithm = fit
    /\ Qualifying(last.pre, LastProcess.size) # {}

\* The allocate succeeded and block k of the list before is the one now occupied by
\* the process: same index and start address, no other block owned by it.
PlacedIn(k) ==
    /\ last.ok
    /\ k \in Qualifying(last.pre, LastProcess.size)
    /\ memoryManager.memory[k].processId = last.pid
    /\ ~memoryManager.memory[k].free
    /\ memoryManager.memory[k].address = last.pre[k].address
    /\ OwnedCount(memoryManager.memory, last.pid) = 1

\* Free blocks of 512 KiB, 2 MiB and 1 MiB at increasing addresses, and a request of 600 KiB.
FitScenario ==
    /\ FreeSizes(last.pre, 1) = <<524288, 2097152, 1048576>>
    /\ LastProcess.size = 614400

\* C8: under best-fit, allocate places the process in the qualifying free block that
\* minimises size - request, the lowest-address one among equals; with free blocks of
\* 512 KiB, 2 MiB, 1 MiB and a 600 KiB request that is the 1 MiB block.
C8_BestFitChoosesSmallestSufficientBlock ==
    FitRequest("best") =>
        \E k \in 1..Len(last.pre) :
            /\ PlacedIn(k)
            /\ \A j \in Qualifying(last.pre, LastProcess.size) :
                  /\ last.pre[k].size - LastProcess.size <= last.pre[j].size - LastProcess.size
                  /\ last.pre[j].size = last.pre[k].size => last.pre[k].address <= last.pre[j].address
            /\ FitScenario => last.pre[k].size = 1048576

\* Best-fit has just served the 600 KiB request from the 1 MiB block of the scenario.
C8_Witness ==
    /\ FitRequest("best") /\ FitScenario
    /\ \E k \in 1..Len(last.pre) : PlacedIn(k) /\ last.pre[k].size = 1048576

\* Best-fit has just chosen between two equally good free blocks.
C8_TieCase ==
    /\ FitRequest("best")
    /\ \E k \in 1..Len(last.pre) :
          /\ PlacedIn(k)
          /\ \E j \in Qualifying(last.pre, LastProcess.size) :
                j > k /\ last.pre[j].size = last.pre[k].size

\* C9: under worst-fit, allocate places the process in the qualifying free block that
\* maximises size - request, the lowest-address one among equals; with free blocks of
\* 512 KiB, 2 MiB, 1 MiB and a 600 KiB request that is the 2 MiB block.
C9_WorstFitChoosesLargestBlock ==
    FitRequest("worst") =>
        \E k \in 1..Len(last.pre) :
            /\ PlacedIn(k)
            /\ \A j \in Qualifying(last.pre, LastProcess.size) :
                  /\ last.pre[k].size - LastProcess.size >= last.pre[j].size - LastProcess.size
                  /\ last.pre[j].size = last.pre[k].size => last.pre[k].address <= last.pre[j].address
            /\ FitScenario => last.pre[k].size = 2097152

\* Worst-fit has just served the 600 KiB request from the 2 MiB block of the scenario.
C9_Witness ==
    /\ FitRequest("worst") /\ FitScenario
    /\ \E k \in 1..Len(last.pre) : PlacedIn(k) /\ last.pre[k].size = 2097152

\* Worst-fit has just chosen between two equally large free blocks.
C9_TieCase ==
    /\ FitRequest("worst")
    /\ \E k \in 1..Len(last.pre) :
          /\ PlacedIn(k)
          /\ \E j \in Qualifying(last.pre, LastProcess.size) :
                j > k /\ last.pre[j].size = last.pre[k].size

\* C10: under first-fit, allocate places the process in the lowest-address qualifying
\* free block, passing over occupied blocks and free blocks that are too small; with
\* free blocks of 512 KiB, 2 MiB, 1 MiB and a 600 KiB request that is the 2 MiB block.
C10_FirstFitChoosesLowestQualifyingBlock ==
    FitRequest("first") =>
        \E k \in 1..Len(last.pre) :
            /\ PlacedIn(k)
            /\ \A j \in 1..(k - 1) :
                  /\ ~last.pre[j].free \/ last.pre[j].size < LastProcess.size
                  /\ memoryManager.memory[j] = last.pre[j]
            /\ \A j \in Qualifying(last.pre, LastProcess.size) :
                  last.pre[k].address <= last.pre[j].address
            /\ FitScenario => last.pre[k].size = 2097152

\* First-fit has just served the 600 KiB request from the 2 MiB block of the scenario,
\* after passing over the 512 KiB block.
C10_Witness ==
    /\ FitRequest("first") /\ FitScenario
    /\ \E k \in 2..Len(last.pre) : PlacedIn(k) /\ last.pre[k].size = 2097152

\* First-fit has just passed over an occupied block and a free block that is too small.
C10_SkipCase ==
    /\ FitRequest("first")
    /\ \E k \in 3..Len(last.pre) :
          /\ PlacedIn(k)
          /\ \E j \in 1..(k - 1) : ~last.pre[j].free
          /\ \E j \in 1..(k - 1) : last.pre[j].free

\* The last command is an allocate, in static mode, of a registered process, on a
\* partition list with at least one free partition that is large enough.
StaticRequest ==
    /\ last.op = "allocate" /\ ~last.threw
    /\ memoryManager.kind = "static"
    /\ Qualifying(last.pre, LastProcess.size) # {}

\* The five partitions with exactly the partitions of the ids in taken occupied.
PartitionsFree(memory, taken) ==
    /\ Len(memory) = 5
    /\ \A i \in 1..5 : memory[i].free <=> memory[i].id \notin taken

\* C11: in static mode allocate(process) occupies the lowest-address partition that is
\* free and has size >= process.size, sets that partition's owner to the process id and
\* the process's partitionId to that partition's id, and changes no other partition;
\* from five free partitions a 1.5 MiB process takes the 2 MiB partition, and then a
\* 3 MiB process takes the 4 MiB partition.
C11_StaticAllocateTakesLowestFittingPartition ==
    StaticRequest =>
        \E k \in Qualifying(last.pre, LastProcess.size) :
            /\ last.ok
            /\ \A j \in Qualifying(last.pre, LastProcess.size) :
                  last.pre[k].address <= last.pre[j].address
            /\ Len(memoryManager.memory) = Len(last.pre)
            /\ memoryManager.memory[k] =
                  [last.pre[k] EXCEPT !.free = FALSE, !.processId = last.pid]
            /\ \A j \in 1..Len(last.pre) : j # k => memoryManager.memory[j] = last.pre[j]
            /\ LastProcess.allocated
            /\ LastProcess.partitionId = last.pre[k].id
            /\ (PartitionsFree(last.pre, {}) /\ LastProcess.size = 1572864)
                  => last.pre[k].size = 2097152
            /\ (PartitionsFree(last.pre, {1}) /\ LastProcess.size = 3145728)
                  => last.pre[k].size = 4194304

\* The 3 MiB process has just been placed in the 4 MiB partition, after the 1.5 MiB
\* process had been placed in the 2 MiB partition of the five free ones.
C11_Witness ==
    /\ StaticRequest /\ last.ok
    /\ PartitionsFree(last.pre, {1})
    /\ last.pre[2].processId = 1 /\ last.pre[2].size = 2097152
    /\ LastProcess.size = 3145728
    /\ memoryManager.memory[3].processId = last.pid
    /\ memoryManager.memory[3].size = 4194304
    /\ LastProcess.partitionId = 2

\* The step is an allocate(process) of a registered process in a state where no free
\* region has size >= process.size.
AllocateWithoutFit ==
    /\ last'.op = "allocate" /\ ~last'.threw
    /\ Qualifying(memoryManager.memory,
                  processes[FindProcess(processes, last'.pid)].size) = {}

\* C12: in both modes, when no free region has size >= process.size, allocate(process)
\* returns false and leaves the region list (number of regions, address, size, free
\* flag and owner of each), every process's allocated flag and partitionId, the
\* controls and the next id as they were before the call.
C12_FailedAllocateChangesNothing ==
    [][AllocateWithoutFit =>
          /\ ~last'.ok
          /\ memoryManager' = memoryManager
          /\ processes' = processes
          /\ UNCHANGED <<algorithmSelect, dynamicAlgorithmSelect, coalesceCheckbox,
                         nextProcessId>>]_vars

\* The sum of the sizes of the free regions of a region list.
RECURSIVE FreeTotal(_, _)
FreeTotal(memory, i) ==
    IF i > Len(memory) THEN 0
    ELSE (IF memory[i].free THEN memory[i].size ELSE 0) + FreeTotal(memory, i + 1)

\* The last command is an allocate that found no region.
AllocateFailed ==
    /\ last.op = "allocate" /\ ~last.threw /\ ~last.ok
    /\ Qualifying(last.pre, LastProcess.size) = {}
    /\ memoryManager.memory = last.pre

\* A dynamic allocate has just failed although the free blocks together would have
\* been large enough for the request.
C12_Witness ==
    /\ AllocateFailed
    /\ memoryManager.kind = "dynamic"
    /\ FreeTotal(last.pre, 1) >= LastProcess.size
    /\ ~LastProcess.allocated /\ LastProcess.partitionId = NULL

\* A static allocate has just failed while partitions were free.
C12_StaticCase ==
    /\ AllocateFailed
    /\ memoryManager.kind = "static"
    /\ \E i \in 1..Len(last.pre) : last.pre[i].free
    /\ ~LastProcess.allocated /\ LastProcess.partitionId = NULL

\* The step is a deallocate(processId) in a state where no region is owned by processId.
DeallocateWithoutRegion ==
    /\ last'.op = "deallocate"
    /\ OwnedCount(memoryManager.memory, last'.pid) = 0

\* The step is a deallocate(processId) that directly follows a deallocate of the same id.
SecondDeallocate ==
    /\ last.op = "deallocate"
    /\ last'.op = "deallocate" /\ last'.pid = last.pid

\* The step raises no error and changes neither the region list nor any process.
NoOpStep ==
    /\ ~last'.threw
    /\ memoryManager' = memoryManager
    /\ processes' = processes

\* C13 as stated: in both modes, deallocate(processId) when no region is owned by
\* processId changes neither the region list nor any process and raises no error, and
\* so does a second deallocate of the same id right after a first one.
C13_DeallocateIsNoOpAndIdempotent ==
    [][(DeallocateWithoutRegion \/ SecondDeallocate) => NoOpStep]_vars

\* C13 amended: the same, where the second deallocate is one that follows a first
\* deallocate of an id that owned at most one region before it.
C13_DeallocateIsNoOpAndIdempotentForSingleOwner ==
    [][(DeallocateWithoutRegion \/ (SecondDeallocate /\ OwnedCount(last.pre, last.pid) <= 1))
          => NoOpStep]_vars

\* A process has just been deallocated a second time in a row, after a first
\* deallocate that freed its only region, while other regions stay occupied.
C13_Witness ==
    /\ last.op = "deallocate" /\ last.again
    /\ ~last.ok /\ ~last.threw
    /\ FindProcess(processes, last.pid) # 0
    /\ memoryManager.memory = last.pre
    /\ OwnedCount(last.pre, last.pid) = 0
    /\ HasOccupied(memoryManager.memory)
    /\ \E i \in 1..Len(last.pre) : last.pre[i].free /\ last.pre[i].size = LastProcess.size

\* A deallocate has just been issued for an id that is not in the registry.
C13_UnknownIdCase ==
    /\ last.op = "deallocate" /\ ~last.ok /\ ~last.threw
    /\ FindProcess(processes, last.pid) = 0
    /\ memoryManager.memory = last.pre
    /\ HasOccupied(memoryManager.memory)

\* A deallocate has just been issued, in static mode, for a registered process
\* that holds no partition.
C13_NeverAllocatedCase ==
    /\ last.op = "deallocate" /\ ~last.ok /\ ~last.again
    /\ memoryManager.kind = "static"
    /\ FindProcess(processes, last.pid) # 0
    /\ ~LastProcess.allocated
    /\ memoryManager.memory = last.pre

\* The last command is an allocate for an id that is not in the process registry.
AllocateOfUnknownId ==
    /\ last.op = "allocate"
    /\ FindProcess(processes, last.pid) = 0

\* C14: an allocate command issued through the controller for a processId that is not
\* in the process registry completes without raising an error and changes no region
\* and no process.
C14_AllocateOfUnknownIdIsNoOp ==
    AllocateOfUnknownId =>
        /\ ~last.threw
        /\ memoryManager.memory = last.pre

\* What the handler does for an unknown id: the region list is as before, and the call raised.
C14_UnknownIdRaises ==
    AllocateOfUnknownId =>
        /\ last.threw /\ ~last.ok
        /\ memoryManager.memory = last.pre

\* The registry's ids are strictly increasing in registry order (hence unique).
IdsIncreasing ==
    \A i \in 1..(Len(processes) - 1) : processes[i].id < processes[i + 1].id

\* What a createProcess step does with its input: nothing for NaN, zero or a negative
\* size; otherwise it appends one unallocated process of that size whose id is the
\* next id and is greater than every id in the registry.
CreateStep ==
    last'.op = "create" =>
        IF last'.input.nan \/ last'.input.n <= 0
        THEN /\ processes' = processes
             /\ nextProcessId' = nextProcessId
        ELSE /\ Len(processes') = Len(processes) + 1
             /\ SubSeq(processes', 1, Len(processes)) = processes
             /\ LET p == processes'[Len(processes')] IN
                   /\ p.size = last'.input.n
                   /\ ~p.allocated /\ p.partitionId = NULL
                   /\ p.id = nextProcessId
                   /\ \A i \in 1..Len(processes) : processes[i].id < p.id
             /\ nextProcessId' = nextProcessId + 1

\* C15: createProcess adds no process and consumes no id when the size is NaN, zero
\* or negative; otherwise it appends exactly one new unallocated process of that size
\* at the end of the registry with an id greater than every existing id; after any
\* command sequence the registry's ids are unique and strictly increasing.
C15_CreateProcessValidatesAndAppends ==
    []IdsIncreasing /\ [][CreateStep]_vars

\* A process has just been appended to a registry in which other processes hold regions.
C15_Witness ==
    /\ last.op = "create" /\ last.ok
    /\ last.input = Num(600 * KiB)
    /\ Len(processes) = Len(DefaultSizes) + 1
    /\ processes[Len(processes)] = ProcessControlBlock(Len(DefaultSizes), 600 * KiB)
    /\ \E i \in 1..Len(DefaultSizes) : processes[i].allocated

\* createProcess has just rejected an input: NaN, zero, a negative size.
C15_RejectedCase(v) ==
    /\ last.op = "create" /\ ~last.ok
    /\ last.input = v
    /\ Len(processes) = Len(DefaultSizes) /\ nextProcessId = Len(DefaultSizes)
C15_NaNCase == C15_RejectedCase(NaNValue)
C15_ZeroCase == C15_RejectedCase(Num(0))
C15_NegativeCase == C15_RejectedCase(Num(0 - 1024))

\* The last command is a successful allocate in dynamic mode.
DynamicAllocateDone ==
    /\ last.op = "allocate" /\ last.ok
    /\ memoryManager.kind = "dynamic"

\* Block k of the list before was split (or filled) for the last command's process.
SplitAt(k) ==
    LET pre == last.pre
        m == memoryManager.memory
        size == LastProcess.size
    IN  /\ pre[k].free /\ pre[k].size >= size
        /\ m[k] = [address |-> pre[k].address, size |-> size,
                   free |-> FALSE, processId |-> last.pid]
        /\ \A j \in 1..(k - 1) : m[j] = pre[j]
        /\ IF pre[k].size > size
           THEN /\ Len(m) = Len(pre) + 1
                /\ m[k + 1] = [address |-> pre[k].address + size,
                               size |-> pre[k].size - size,
                               free |-> TRUE, processId |-> NULL]
                /\ \A j \in (k + 1)..Len(pre) : m[j + 1] = pre[j]
           ELSE /\ Len(m) = Len(pre)
                /\ \A j \in (k + 1)..Len(pre) : m[j] = pre[j]

\* C16: in dynamic mode a successful allocate(process) turns the chosen free block B
\* into an occupied block with the same start address and size process.size; if B was
\* larger it inserts one free ownerless block right after it, at B.address +
\* process.size, with the remainder as its size; if B had exactly process.size it
\* inserts nothing; no block has size zero, the other blocks are unchanged and the
\* sum of the block sizes is as before.
C16_SplitKeepsExtent ==
    DynamicAllocateDone =>
        /\ \E k \in 1..Len(last.pre) : SplitAt(k)
        /\ \A j \in 1..Len(memoryManager.memory) : memoryManager.memory[j].size > 0
        /\ SumSizes(memoryManager.memory, Len(memoryManager.memory))
              = SumSizes(last.pre, Len(last.pre))

\* An allocate has just filled a free block exactly, between two other blocks: the
\* list has as many blocks as before.
C16_Witness ==
    /\ DynamicAllocateDone
    /\ Len(memoryManager.memory) = Len(last.pre)
    /\ \E k \in 2..(Len(last.pre) - 1) :
          SplitAt(k) /\ last.pre[k].size = LastProcess.size

\* An allocate has just split a free block that lies between two other blocks.
C16_SplitCase ==
    /\ DynamicAllocateDone
    /\ Len(memoryManager.memory) = Len(last.pre) + 1
    /\ \E k \in 2..(Len(last.pre) - 1) :
          SplitAt(k) /\ last.pre[k].size > LastProcess.size

\* What a step that ends in initialize() does to the registry: same length, same id,
\* name and size at every position, every process cleared, next id unchanged.
InitializeStep ==
    last'.op \in InitializeOps =>
        /\ Len(processes') = Len(processes)
        /\ \A i \in 1..Len(processes) :
              /\ processes'[i].id = processes[i].id
              /\ processes'[i].name = processes[i].name
              /\ processes'[i].size = processes[i].size
              /\ ~processes'[i].allocated
              /\ processes'[i].partitionId = NULL
        /\ nextProcessId' = nextProcessId

\* C17: a mode switch, option change or reset never removes, reorders or re-identifies
\* processes: after initialize() the registry holds the same processes in the same
\* order with the same id, name and size, the next id to assign is unchanged, and only
\* the allocated flags and backing references are cleared.
C17_InitializeKeepsRegistry ==
    [][InitializeStep]_vars

\* initialize() has just discarded occupied regions while the registry holds the
\* five startup processes and one the user added.
C17_Witness ==
    /\ last.op \in InitializeOps
    /\ last.cleared >= 1
    /\ processes = DefaultProcesses \o <<ProcessControlBlock(Len(DefaultSizes), 600 * KiB)>>
    /\ nextProcessId = Len(DefaultSizes) + 1

\* ------------------------------------------- the first-fit-only variant
\* src/unnamed/part_000 is the simulator without the fit select and without the
\* reserved prefix.  The third specification runs its dynamic mode: the mode select
\* stays on "dynamic" and the fit select, which the variant does not have, on "first".
VariantDefaultSizes == <<512 * KiB, 1536 * KiB, 3 * MiB, 700 * KiB, 6 * MiB>>

VariantDefaultProcesses ==
    [i \in 1..Len(VariantDefaultSizes) |-> ProcessControlBlock(i - 1, VariantDefaultSizes[i])]

VariantDynamicMemoryManager(totalSize, coalesceEnabled) ==
    [kind |-> "dynamic", totalSize |-> totalSize, coalesceEnabled |-> coalesceEnabled,
     memory |-> <<[address |-> 0, size |-> totalSize, free |-> TRUE, processId |-> NULL]>>]

\* The for loop of the variant's allocate: the first free block that is large enough.
RECURSIVE VariantScan(_, _, _)
VariantScan(memory, size, i) ==
    IF i > Len(memory) THEN 0
    ELSE IF memory[i].free /\ memory[i].size >= size THEN i
    ELSE VariantScan(memory, size, i + 1)

\* allocate(process) of the variant's dynamic manager: process.allocated is set,
\* process.partitionId is not assigned.
VariantDynamicAllocate(mm, procs, pi) ==
    LET k == VariantScan(mm.memory, procs[pi].size, 1) IN
    IF k # 0
    THEN LET block == mm.memory[k]
             remainingSize == block.size - procs[pi].size
             occupied == [mm.memory EXCEPT ![k].size = procs[pi].size, ![k].free = FALSE,
                                           ![k].processId = procs[pi].id]
         IN  [ok |-> TRUE, index |-> k,
              mm |-> [mm EXCEPT !.memory =
                        IF remainingSize > 0
                        THEN InsertAt(occupied, k + 1,
                                      [address |-> block.address + procs[pi].size,
                                       size |-> remainingSize,
                                       free |-> TRUE, processId |-> NULL])
                        ELSE occupied],
              procs |-> [procs EXCEPT ![pi].allocated = TRUE]]
    ELSE [ok |-> FALSE, index |-> 0, mm |-> mm, procs |-> procs]

\* deallocate(processId) of the variant's dynamic manager: process.allocated is
\* cleared, process.partitionId is left as it is.
VariantDynamicDeallocate(mm, procs, processId) ==
    LET k == FindOwned(mm.memory, processId)
        pi == FindProcess(procs, processId)
    IN  IF k # 0
        THEN LET freed == [mm.memory EXCEPT ![k].free = TRUE, ![k].processId = NULL] IN
             [found |-> TRUE, index |-> k,
              mm |-> [mm EXCEPT !.memory = IF mm.coalesceEnabled THEN Coalesce(freed) ELSE freed],
              procs |-> IF pi # 0 THEN [procs EXCEPT ![pi].allocated = FALSE] ELSE procs]
        ELSE [found |-> FALSE, index |-> 0, mm |-> mm, procs |-> procs]

VariantInit ==
    /\ algorithmSelect = "dynamic"
    /\ dynamicAlgorithmSelect = "first"
    /\ coalesceCheckbox \in BOOLEAN
    /\ memoryManager = VariantDynamicMemoryManager(TOTAL_MEMORY, coalesceCheckbox)
    /\ processes = VariantDefaultProcesses
    /\ nextProcessId = Len(VariantDefaultSizes)
    /\ last = LastRecord("setup", NULL, TRUE, FALSE, 0, <<>>, NoBase)

\* initialize() of the variant in dynamic mode, with the checkbox at its new value.
VariantInitialize(op, coalesce) ==
    /\ coalesceCheckbox' = coalesce
    /\ memoryManager' = VariantDynamicMemoryManager(TOTAL_MEMORY, coalesce)
    /\ processes' = ResetProcesses(processes)
    /\ last' = [LastRecord(op, NULL, TRUE, FALSE, 0, <<>>, NoBase)
                  EXCEPT !.cleared = OccupiedCount(memoryManager.memory)]
    /\ UNCHANGED <<algorithmSelect, dynamicAlgorithmSelect, nextProcessId>>

VariantCoalesceChange == VariantInitialize("coalesce", ~coalesceCheckbox)

VariantResetClick == VariantInitialize("reset", coalesceCheckbox)

\* handleProcessListClick of the variant on an allocate button of a registered process.
VariantClickAllocate(id) ==
    LET pi == FindProcess(processes, id)
        r == VariantDynamicAllocate(memoryManager, processes, pi)
    IN  /\ pi # 0
        /\ Len(r.mm.memory) <= MaxBlocks
        /\ memoryManager' = r.mm
        /\ processes' = r.procs
        /\ last' = LastRecord("allocate", id, r.ok, FALSE, r.index, memoryManager.memory, NoBase)
        /\ UNCHANGED <<algorithmSelect, dynamicAlgorithmSelect, coalesceCheckbox, nextProcessId>>

\* handleProcessListClick of the variant on a deallocate button.
VariantClickDeallocate(id) ==
    LET r == VariantDynamicDeallocate(memoryManager, processes, id) IN
    /\ memoryManager' = r.mm
    /\ processes' = r.procs
    /\ last' = LastRecord("deallocate", id, r.found, FALSE, r.index, memoryManager.memory, NoBase)
    /\ UNCHANGED <<algorithmSelect, dynamicAlgorithmSelect, coalesceCheckbox, nextProcessId>>

\* The clicks go to the 1.5 MiB, the 3 MiB and the 6 MiB process.
VariantClickIds == {1, 2, Len(VariantDefaultSizes) - 1}

VariantNext ==
    \/ VariantCoalesceChange
    \/ VariantResetClick
    \/ \E id \in VariantClickIds : VariantClickAllocate(id)
    \/ \E id \in VariantClickIds : VariantClickDeallocate(id)

VariantSpec == VariantInit /\ [][VariantNext]_vars

\* C18: in the first-fit-only variant a successful dynamic-mode allocate sets the
\* process's allocated flag to true and its partitionId to the occupied block's start
\* address, so that partitionId is non-null exactly when allocated is true.
C18_VariantAllocateSetsBackingReference ==
    (last.op = "allocate" /\ last.ok) =>
        /\ LastProcess.allocated
        /\ LastProcess.partitionId = memoryManager.memory[last.index].address
        /\ (LastProcess.partitionId # NULL) <=> LastProcess.allocated

\* What the variant does: after a successful allocate the flag is true and the
\* block is owned by the process, while partitionId is still null.
C18_VariantLeavesReferenceNull ==
    (last.op = "allocate" /\ last.ok) =>
        /\ LastProcess.allocated
        /\ memoryManager.memory[last.index].processId = last.pid
        /\ LastProcess.partitionId = NULL

\* C19: in dynamic mode with coalescing enabled no two address-adjacent blocks are
\* both free, in any reachable state: the initial single block, the splits of allocate
\* under each fit and every deallocate followed by coalesce preserve it.
C19_NoAdjacentFreeBlocksWhenCoalescing ==
    (memoryManager.kind = "dynamic" /\ memoryManager.coalesceEnabled)
        => NoAdjacentFree(memoryManager.memory)

\* With coalescing enabled, a deallocate has just freed a block between two occupied
\* ones while another free block exists: two free blocks, not adjacent.
C19_Witness ==
    /\ memoryManager.kind = "dynamic" /\ memoryManager.coalesceEnabled
    /\ last.op = "deallocate" /\ last.ok
    /\ Len(memoryManager.memory) = Len(last.pre)
    /\ \E i, j \in 1..Len(memoryManager.memory) :
          /\ j > i + 1
          /\ memoryManager.memory[i].free /\ memoryManager.memory[j].free
          /\ ~last.pre[i].free

\* With coalescing enabled, a deallocate has just merged the freed block with free
\* blocks on both sides.
C19_MergeBothSidesCase ==
    /\ memoryManager.kind = "dynamic" /\ memoryManager.coalesceEnabled
    /\ last.op = "deallocate" /\ last.ok
    /\ Len(memoryManager.memory) = Len(last.pre) - 2

\* With coalescing enabled, an allocate under the given fit has just split a free
\* block that is not the last block of the list.
C19_SplitCase(fit) ==
    /\ memoryManager.kind = "dynamic" /\ memoryManager.coalesceEnabled
    /\ memoryManager.fitAlgorithm = fit
    /\ last.op = "allocate" /\ last.ok
    /\ Len(memoryManager.memory) = Len(last.pre) + 1
    /\ last.index < Len(last.pre)
C19_FirstFitCase == C19_SplitCase("first")
C19_BestFitCase == C19_SplitCase("best")
C19_WorstFitCase == C19_SplitCase("worst")

\* C20: in dynamic mode with coalescing enabled, after any sequence of addProcess,
\* allocate (issued only for processes whose allocated flag is false) and deallocate
\* commands, whenever no registered process is allocated the block list is exactly one
\* free, ownerless block that starts at 2 MiB and has size 14 MiB.
C20_MemoryFullyRecovered ==
    (/\ memoryManager.kind = "dynamic"
     /\ memoryManager.coalesceEnabled
     /\ \A i \in 1..Len(processes) : ~processes[i].allocated)
        => memoryManager.memory =
              <<[address |-> 2097152, size |-> 14680064, free |-> TRUE, processId |-> NULL]>>

\* The last allocated process has just been deallocated, out of allocation order: its
\* block lay between two free blocks, and the list is the single 14 MiB block again.
C20_Witness ==
    /\ memoryManager.kind = "dynamic" /\ memoryManager.coalesceEnabled
    /\ last.op = "deallocate" /\ last.ok
    /\ Len(last.pre) = 3
    /\ last.pre[1].free /\ ~last.pre[2].free /\ last.pre[3].free
    /\ \A i \in 1..Len(processes) : ~processes[i].allocated
    /\ Len(memoryManager.memory) = 1

\* C21: when allocate is issued only for a process whose allocated flag is false, in
\* every reachable state each process id owns at most one region, a region is free
\* exactly when its processId is null, and every occupied region's owner is a
\* registered process whose allocated flag is true and whose partitionId identifies
\* that region, in both modes and across mode switches.
C21_NoOrphanedRegion ==
    LET m == memoryManager.memory IN
    /\ \A k, j \in 1..Len(m) :
          (m[k].processId # NULL /\ m[k].processId = m[j].processId) => k = j
    /\ \A k \in 1..Len(m) : m[k].free <=> m[k].processId = NULL
    /\ \A k \in 1..Len(m) :
          ~m[k].free =>
              \E i \in 1..Len(processes) :
                  /\ processes[i].id = m[k].processId
                  /\ processes[i].allocated
                  /\ Identifies(m[k], processes[i].partitionId)

\* In static mode a process has just been deallocated while two others, one of them
\* added by the user, still hold partitions.
C21_Witness ==
    /\ memoryManager.kind = "static"
    /\ last.op = "deallocate" /\ last.ok
    /\ ~LastProcess.allocated
    /\ OccupiedCount(memoryManager.memory) = 2
    /\ OwnedCount(memoryManager.memory, Len(DefaultSizes)) = 1

\* The same in dynamic mode, with the freed block lying before the occupied ones.
C21_DynamicCase ==
    /\ memoryManager.kind = "dynamic"
    /\ last.op = "deallocate" /\ last.ok
    /\ memoryManager.memory[1].free
    /\ OccupiedCount(memoryManager.memory) = 2

\* The mode has just been switched while processes held regions.
C21_ModeSwitchCase ==
    /\ last.op = "mode"
    /\ last.cleared >= 2
    /\ \A k \in 1..Len(memoryManager.memory) : memoryManager.memory[k].free

\* The last command is an allocate of a registered process in dynamic mode.
DynamicRequest ==
    /\ last.op = "allocate" /\ ~last.threw
    /\ memoryManager.kind = "dynamic"

\* The manager the last command ran on, configured with the given fit algorithm.
ManagerBefore(fit) ==
    [memoryManager EXCEPT !.memory = last.pre, !.fitAlgorithm = fit]

\* C22: in dynamic mode, for every block list and request size, allocate succeeds
\* exactly when at least one free block has size >= the request, under first-fit,
\* best-fit and worst-fit alike; it fails when every free block is smaller than the
\* request, even if the free blocks together are large enough.
C22_SuccessIndependentOfFit ==
    DynamicRequest =>
        /\ last.ok <=> Qualifying(last.pre, LastProcess.size) # {}
        /\ \A fit \in FitAlgorithms :
              (FindBlock(ManagerBefore(fit), LastProcess.size) # 0) <=> last.ok
        /\ (\A i \in 1..Len(last.pre) :
                last.pre[i].free => last.pre[i].size < LastProcess.size) => ~last.ok

\* Under worst-fit an allocate has just failed on a list with several free blocks,
\* each too small, whose sizes add up to at least the request.
C22_Witness ==
    /\ DynamicRequest /\ ~last.ok
    /\ memoryManager.fitAlgorithm = "worst"
    /\ Len(FreeSizes(last.pre, 1)) >= 2
    /\ FreeTotal(last.pre, 1) >= LastProcess.size
    /\ \A fit \in FitAlgorithms : FindBlock(ManagerBefore(fit), LastProcess.size) = 0

\* Under the given fit an allocate has just succeeded on a list whose only qualifying
\* free block has exactly the requested size.
C22_ExactFitCase(fit) ==
    /\ DynamicRequest /\ last.ok
    /\ memoryManager.fitAlgorithm = fit
    /\ Cardinality(Qualifying(last.pre, LastProcess.size)) = 1
    /\ \A k \in Qualifying(last.pre, LastProcess.size) : last.pre[k].size = LastProcess.size
C22_FirstFitCase == C22_ExactFitCase("first")
C22_BestFitCase == C22_ExactFitCase("best")
C22_WorstFitCase == C22_ExactFitCase("worst")

\* The step is an allocate(p) or a deallocate(p.id).
AllocateOrDeallocateStep == last'.op \in {"allocate", "deallocate"}

\* Every region occupied by a process other than the command's keeps its fields
\* (start address, size, owner; in static mode its id too).
OtherRegionsKept ==
    \A k \in 1..Len(memoryManager.memory) :
        LET region == memoryManager.memory[k] IN
        (~region.free /\ region.processId # last'.pid) =>
            \E j \in 1..Len(memoryManager'.memory) : memoryManager'.memory[j] = region

\* Every process other than the command's keeps its allocated flag and partitionId.
OtherProcessesKept ==
    /\ Len(processes') = Len(processes)
    /\ \A i \in 1..Len(processes) :
          processes[i].id # last'.pid =>
              /\ processes'[i].allocated = processes[i].allocated
              /\ processes'[i].partitionId = processes[i].partitionId

\* An occupied region is still there, with the same fields, after every step that is
\* neither a deallocate of its owner nor an initialize().
OccupiedRegionsPersist ==
    \A k \in 1..Len(memoryManager.memory) :
        LET region == memoryManager.memory[k] IN
        ~region.free =>
            \/ last'.op = "deallocate" /\ last'.pid = region.processId
            \/ last'.op \in InitializeOps
            \/ \E j \in 1..Len(memoryManager'.memory) : memoryManager'.memory[j] = region

\* C23: allocate(p) and deallocate(p.id), the coalescing pass included, never change
\* the start address, size or owner of a region occupied by a process other than p,
\* nor the allocated flag or partitionId of a process other than p; an occupied region
\* keeps its start address and size from its allocation until its deallocation or a reset.
C23_OtherProcessesUntouched ==
    [][/\ AllocateOrDeallocateStep => (OtherRegionsKept /\ OtherProcessesKept)
       /\ OccupiedRegionsPersist]_vars

\* With coalescing enabled a deallocate has just merged free blocks in front of a
\* block that another process occupies: that block moved to a lower index and kept
\* its start address, size and owner, and its owner is still allocated.
C23_Witness ==
    /\ memoryManager.kind = "dynamic" /\ memoryManager.coalesceEnabled
    /\ last.op = "deallocate" /\ last.ok
    /\ Len(memoryManager.memory) < Len(last.pre)
    /\ \E k \in 1..Len(last.pre) :
          /\ ~last.pre[k].free /\ last.pre[k].processId # last.pid
          /\ k > last.index
          /\ memoryManager.memory[k - 1] = last.pre[k]
          /\ \E i \in 1..Len(processes) :
                /\ processes[i].id = last.pre[k].processId
                /\ processes[i].allocated
                /\ processes[i].partitionId = last.pre[k].address

\* An allocate has just split a free block that lies in front of a block another
\* process occupies: that block moved to a higher index and kept its fields.
C23_SplitCase ==
    /\ memoryManager.kind = "dynamic"
    /\ last.op = "allocate" /\ last.ok
    /\ Len(memoryManager.memory) = Len(last.pre) + 1
    /\ \E k \in 1..Len(last.pre) :
          /\ ~last.pre[k].free /\ last.pre[k].processId # last.pid
          /\ k > last.index
          /\ memoryManager.memory[k + 1] = last.pre[k]

====
